---- MODULE Spec2Model ----
(***************************************************************************)
(* PopupStub (src/src/PopupStub.js): the popup registry, its removal state *)
(* machine, the back-button handler and React's batched setState queue.    *)
(*                                                                         *)
(* this.state.popups is one mutable Map object that the handlers change in *)
(* place and hand back to setState; _sortPopups and removeAll build fresh  *)
(* Map objects.  setState only queues an update: this.state keeps pointing *)
(* at the old Map until React applies the queue, and the completion        *)
(* callbacks run after that.  Records are shared by reference between all  *)
(* Maps, so the model keeps them in one table (recs) and the Maps hold ids.*)
(***************************************************************************)
EXTENDS Integers, Sequences, FiniteSets, TLC

\* ------------------------------------------------------------------ bounds
MaxPopups == 2      \* records addPopup creates under Spec
MaxPending == 2     \* setState updates queued before React applies them
MaxAdds == 3        \* records addPopup creates under SpecAdd
MaxBack == 3        \* records in the registries SpecBack starts from

\* ------------------------------------------------------- program constants
DefaultTimeout == 100   \* popup.duration || 100

VARIABLES
  stub,        \* PopupStub._stub is set (a live registry instance)
  _orderId,    \* PopupStub._orderId
  popups,      \* this.state.popups: the ids of the live Map, in insertion order
  recs,        \* every record created so far, by id (records are shared objects)
  pending,     \* React's queue of setState updates that are not applied yet
  timers,      \* per id: the delays of its pending setTimeout callbacks
  closedCount, \* per id: invocations of the record's onClosed
  addedCount,  \* per id: invocations of the record's onAdded
  evicted      \* the evictions so far: the older record, the newer, the zIndex

vars == <<stub, _orderId, popups, recs, pending, timers,
          closedCount, addedCount, evicted>>

\* ----------------------------------------------------------------- values
Max(a, b) == IF a > b THEN a ELSE b
Ids == 1..Max(MaxPopups, Max(MaxAdds, MaxBack))   \* every id a run can create
AppIds == 1..MaxPopups      \* the ids the application calls the facade with
NoId == 0                       \* a falsy id (undefined, '')
ZIndexes == {1, 2}
Undefined == [t |-> "undefined"]
Bool(b) == [t |-> "boolean", b |-> b]
IdValue(i) == [t |-> "string", id |-> i]
TypeError == [t |-> "TypeError"]

Min(a, b) == IF a < b THEN a ELSE b
Range(s) == {s[i] : i \in DOMAIN s}

\* shared.js: functions are named by a string, "undefined" is no function
isFunction(f) == f # "undefined"

\* Map.prototype.has / delete / set (a new key goes last) on a Map of ids
MapHas(m, id) == \E i \in DOMAIN m : m[i] = id
MapDelete(m, id) == SelectSeq(m, LAMBDA x : x # id)
MapSet(m, id) == IF MapHas(m, id) THEN m ELSE Append(m, id)

\* ------------------------------------------------------ Array.prototype.sort
\* Array.prototype.sort(comparefn) on a short array, as three engines run it.
\* They call comparefn with different argument orders, which matters for a
\* comparator that is not a consistent order.  cmp is a function
\* [x, y |-> number] over the elements.
\*   "insertion": linear insertion, comparefn(a[j], element), shift while > 0
\*   "timsort":   first run counted (and reversed when descending), then binary
\*                insertion, comparefn(pivot, a[mid]), go left while < 0
\*   "merge":     bottom-up merge sort, comparefn(right, left), right first
\*                when < 0
RECURSIVE InsertLinear(_, _, _, _)
InsertLinear(a, j, element, cmp) ==
  IF j >= 1 /\ cmp[a[j], element] > 0
  THEN InsertLinear(a, j - 1, element, cmp)
  ELSE SubSeq(a, 1, j) \o <<element>> \o SubSeq(a, j + 1, Len(a))

RECURSIVE BinarySearch(_, _, _, _, _)
BinarySearch(a, left, right, pivot, cmp) ==
  IF left < right
  THEN LET mid == left + ((right - left) \div 2)
       IN IF cmp[pivot, a[mid + 1]] < 0
          THEN BinarySearch(a, left, mid, pivot, cmp)
          ELSE BinarySearch(a, mid + 1, right, pivot, cmp)
  ELSE left

InsertBinary(a, pivot, cmp) ==
  LET left == BinarySearch(a, 0, Len(a), pivot, cmp)
  IN SubSeq(a, 1, left) \o <<pivot>> \o SubSeq(a, left + 1, Len(a))

RECURSIVE SortFrom(_, _, _, _)
SortFrom(a, i, cmp, binary) ==
  IF i > Len(a) THEN a
  ELSE LET prefix == SubSeq(a, 1, i - 1)
           placed == IF binary
                     THEN InsertBinary(prefix, a[i], cmp)
                     ELSE InsertLinear(prefix, i - 1, a[i], cmp)
       IN SortFrom(placed \o SubSeq(a, i + 1, Len(a)), i + 1, cmp, binary)

RECURSIVE Reverse(_)
Reverse(a) == IF a = <<>> THEN <<>> ELSE Append(Reverse(Tail(a)), Head(a))

RECURSIVE RunLength(_, _, _, _)
RunLength(a, idx, isDescending, cmp) ==
  IF idx > Len(a) THEN idx - 1
  ELSE LET order == cmp[a[idx], a[idx - 1]]
       IN IF (isDescending /\ order >= 0) \/ (~isDescending /\ order < 0)
          THEN idx - 1
          ELSE RunLength(a, idx + 1, isDescending, cmp)

TimSort(a, cmp) ==
  IF Len(a) < 2 THEN a
  ELSE LET isDescending == cmp[a[2], a[1]] < 0
           n == RunLength(a, 3, isDescending, cmp)
           run == IF isDescending
                  THEN Reverse(SubSeq(a, 1, n)) \o SubSeq(a, n + 1, Len(a))
                  ELSE a
       IN SortFrom(run, n + 1, cmp, TRUE)

RECURSIVE Merge(_, _, _)
Merge(left, right, cmp) ==
  IF right = <<>> THEN left
  ELSE IF left = <<>> THEN right
  ELSE IF cmp[Head(right), Head(left)] < 0
       THEN <<Head(right)>> \o Merge(left, Tail(right), cmp)
       ELSE <<Head(left)>> \o Merge(Tail(left), right, cmp)

RECURSIVE MergePass(_, _, _)
MergePass(a, width, cmp) ==
  IF Len(a) <= width THEN a
  ELSE LET rightEnd == Min(2 * width, Len(a))
       IN Merge(SubSeq(a, 1, width), SubSeq(a, width + 1, rightEnd), cmp)
          \o MergePass(SubSeq(a, rightEnd + 1, Len(a)), width, cmp)

RECURSIVE MergeSort(_, _, _)
MergeSort(a, width, cmp) ==
  IF width >= Len(a) THEN a
  ELSE MergeSort(MergePass(a, width, cmp), 2 * width, cmp)

Engines == {"insertion", "timsort", "merge"}
ArraySort(a, cmp, engine) ==
  IF engine = "insertion" THEN SortFrom(a, 2, cmp, FALSE)
  ELSE IF engine = "timsort" THEN TimSort(a, cmp)
  ELSE MergeSort(a, 1, cmp)

\* ------------------------------------------------------------ the records
\* What the application passes to addPopup: one of a few kinds of popup, at
\* a zIndex.  animation is "undefined", a string name ("name") or a keyframes
\* object ("keyframes"); durations are even, so that duration / 2 is a whole
\* number.  Every popup is created visible; resetPopupProperty hides it.
Toast ==      \* closes by playing its named animation backwards
  [animation |-> "name", closingAnimation |-> "undefined", duration |-> 4,
   _maskAnimatable |-> TRUE, autoClose |-> TRUE, onPressBack |-> "returnsFalse"]
Modal ==      \* closes by reversed keyframes, handles the back button itself
  [animation |-> "keyframes", closingAnimation |-> "undefined", duration |-> 6,
   _maskAnimatable |-> FALSE, autoClose |-> FALSE, onPressBack |-> "returnsTrue"]
Plain ==      \* no animation
  [animation |-> "undefined", closingAnimation |-> "undefined", duration |-> 0,
   _maskAnimatable |-> FALSE, autoClose |-> TRUE, onPressBack |-> "returnsFalse"]
Common ==
  [visible |-> TRUE, maskDuration |-> 2, onClosed |-> "function",
   onAdded |-> "function"]
Options ==
  { Toast @@ [zIndex |-> 1] @@ Common, Modal @@ [zIndex |-> 1] @@ Common,
    Plain @@ [zIndex |-> 2] @@ Common }

\* util/createPopup.js: the record of a new popup
createPopup(id, option) ==
  [id |-> id, _orderId |-> option._orderId, zIndex |-> option.zIndex,
   visible |-> option.visible, autoClose |-> option.autoClose,
   animation |-> option.animation,
   closingAnimation |-> option.closingAnimation,
   direction |-> "normal", duration |-> option.duration, delay |-> 0,
   maskDuration |-> option.maskDuration, _maskDelay |-> 0,
   _maskAnimatable |-> option._maskAnimatable, _maskAnimation |-> "keyframes",
   _closing |-> FALSE, onAnimationEnd |-> "function",
   onPressBack |-> option.onPressBack, onClosed |-> option.onClosed,
   onAdded |-> option.onAdded]

\* util/keyframes.js
reverseKeyframes(k) ==
  IF k = "keyframes" THEN "keyframes.reversed"
  ELSE IF k = "keyframes.reversed" THEN "keyframes" ELSE k

\* ------------------------------------------------------ setState's queue
\* An update names the Map it sets: the live Map object itself (same) or a
\* fresh Map with the ids it was built with; and its completion callback:
\* the onAdded / onClosed functions it will call (fns) and the ids the update
\* removes (removed).
SameMap == [same |-> TRUE, ids |-> <<>>]
NewMap(ids) == [same |-> FALSE, ids |-> ids]
NoCallback == [kind |-> "none", fns |-> <<>>, removed |-> <<>>]

setState(h, map, cb) ==
  [h EXCEPT !.pending = Append(@, [popups |-> map, cb |-> cb])]

\* The state the methods work on, and ret, what the call returns
Heap ==
  [stub |-> stub, _orderId |-> _orderId, popups |-> popups, recs |-> recs,
   pending |-> pending, timers |-> timers, evicted |-> evicted,
   ret |-> Undefined]

\* ------------------------------------------------------- instance methods
\* removePopupImmediately had it looked whether the record exists, not
\* whether the Map has it
removeUnchecked(h, id) ==
  IF id \in DOMAIN h.recs
  THEN LET onClosed == h.recs[id].onClosed
           h1 == [h EXCEPT !.popups = MapDelete(@, id)]
           cb == [kind |-> "closed",
                  fns |-> IF isFunction(onClosed) THEN <<id>> ELSE <<>>,
                  removed |-> <<id>>]
       IN [setState(h1, SameMap, cb) EXCEPT !.ret = Bool(TRUE)]
  ELSE [h EXCEPT !.ret = Bool(FALSE)]

removePopupImmediately(h, id) ==
  IF MapHas(h.popups, id)
  THEN LET onClosed == h.recs[id].onClosed
           h1 == [h EXCEPT !.popups = MapDelete(@, id)]
           cb == [kind |-> "closed",
                  fns |-> IF isFunction(onClosed) THEN <<id>> ELSE <<>>,
                  removed |-> <<id>>]
       IN [setState(h1, SameMap, cb) EXCEPT !.ret = Bool(TRUE)]
  ELSE [h EXCEPT !.ret = Bool(FALSE)]

\* _beforeClosing had it not marked the record as closing
closingUnmarked(h, id) ==
  LET popup == h.recs[id]
      p1 == [popup EXCEPT !.delay = 0]
      p2 == IF p1._maskAnimatable
            THEN [p1 EXCEPT !._maskAnimation = reverseKeyframes(@),
                            !._maskDelay = p1.duration - p1.maskDuration]
            ELSE p1
  IN IF p2.closingAnimation = "undefined" /\ p2.animation = "name"
     THEN [h EXCEPT
             !.recs[id] = [p2 EXCEPT !.direction = "reverse",
                                     !.closingAnimation = p2.animation],
             !.timers[id] = Append(@, IF p2.duration # 0 THEN p2.duration
                                         ELSE DefaultTimeout)]
     ELSE [h EXCEPT
             !.recs[id] = [p2 EXCEPT
                 !.closingAnimation = IF @ # "undefined" THEN @
                                      ELSE reverseKeyframes(p2.animation),
                 !.onAnimationEnd = "removePopupImmediately"]]

_beforeClosing(h, id) ==
  LET popup == h.recs[id]
      p1 == [popup EXCEPT !.delay = 0, !._closing = TRUE]
      p2 == IF p1._maskAnimatable
            THEN [p1 EXCEPT !._maskAnimation = reverseKeyframes(@),
                            !._maskDelay = p1.duration - p1.maskDuration]
            ELSE p1
  IN IF p2.closingAnimation = "undefined" /\ p2.animation = "name"
     THEN [h EXCEPT
             !.recs[id] = [p2 EXCEPT !.direction = "reverse",
                                     !.closingAnimation = p2.animation],
             !.timers[id] = Append(@, IF p2.duration # 0 THEN p2.duration
                                         ELSE DefaultTimeout)]
     ELSE [h EXCEPT
             !.recs[id] = [p2 EXCEPT
                 !.closingAnimation = IF @ # "undefined" THEN @
                                      ELSE reverseKeyframes(p2.animation),
                 !.onAnimationEnd = "removePopupImmediately"]]

\* removePopup had it not looked whether the record is closing already
removePopupAgain(h, id, forceUpdate) ==
  IF id = NoId \/ ~h.stub THEN h
  ELSE IF ~MapHas(h.popups, id) THEN h
  ELSE IF h.recs[id].animation = "undefined" \/ ~h.recs[id].visible
       THEN [removePopupImmediately(h, id) EXCEPT !.ret = Undefined]
  ELSE LET h1 == _beforeClosing(h, id)
       IN IF forceUpdate THEN setState(h1, SameMap, NoCallback) ELSE h1

\* removePopup had it played the closing transition for every record
removePopupAnimated(h, id, forceUpdate) ==
  IF id = NoId \/ ~h.stub THEN h
  ELSE IF ~MapHas(h.popups, id) \/ h.recs[id]._closing THEN h
  ELSE LET h1 == _beforeClosing(h, id)
       IN IF forceUpdate THEN setState(h1, SameMap, NoCallback) ELSE h1

removePopup(h, id, forceUpdate) ==
  IF id = NoId \/ ~h.stub THEN h
  ELSE IF ~MapHas(h.popups, id) \/ h.recs[id]._closing THEN h
  ELSE IF h.recs[id].animation = "undefined" \/ ~h.recs[id].visible
       THEN [removePopupImmediately(h, id) EXCEPT !.ret = Undefined]
  ELSE LET h1 == _beforeClosing(h, id)
       IN IF forceUpdate THEN setState(h1, SameMap, NoCallback) ELSE h1

\* sort by zIndex: a new Map when there is more than one entry
sortedByZIndex(h, m, engine) ==
  ArraySort(m, [a \in Range(m), b \in Range(m) |->
                  h.recs[a].zIndex - h.recs[b].zIndex], engine)

_sortPopups(h, m, engine) ==
  IF Len(m) > 1 THEN NewMap(sortedByZIndex(h, m, engine)) ELSE SameMap

\* addPopup had it not delayed the popup that replaces another
addPopupUndelayed(h, element, option, engine) ==
  IF ~element \/ ~h.stub THEN h
  ELSE
    LET id == Len(h.recs) + 1
        created == createPopup(id, option @@ [_orderId |-> h._orderId])
        h1 == [h EXCEPT !._orderId = @ + 1]
        hit == {i \in DOMAIN h1.popups :
                  /\ h1.recs[h1.popups[i]].zIndex = created.zIndex
                  /\ ~h1.recs[h1.popups[i]]._closing}
        first == CHOOSE i \in hit : \A j \in hit : i <= j
        key == h1.popups[first]
        newPopup == created
        h2 == IF hit = {} THEN h1
              ELSE [removePopup(h1, key, FALSE) EXCEPT
                      !.evicted = @ \cup {[older |-> key, newer |-> id,
                                           zIndex |-> created.zIndex]}]
        h3 == [h2 EXCEPT !.recs = Append(@, newPopup),
                         !.popups = MapSet(@, id)]
        cb == [kind |-> "added", fns |-> <<id>>, removed |-> <<>>]
    IN [setState(h3, _sortPopups(h3, h3.popups, engine), cb)
          EXCEPT !.ret = IdValue(id)]

addPopup(h, element, option, engine) ==
  IF ~element \/ ~h.stub THEN h
  ELSE
    LET id == Len(h.recs) + 1
        created == createPopup(id, option @@ [_orderId |-> h._orderId])
        h1 == [h EXCEPT !._orderId = @ + 1]
        hit == {i \in DOMAIN h1.popups :
                  /\ h1.recs[h1.popups[i]].zIndex = created.zIndex
                  /\ ~h1.recs[h1.popups[i]]._closing}
        first == CHOOSE i \in hit : \A j \in hit : i <= j
        key == h1.popups[first]
        newPopup == IF hit = {} THEN created
                    ELSE [created EXCEPT
                            !.delay = h1.recs[key].duration \div 2,
                            !._maskDelay = h1.recs[key].duration \div 2]
        h2 == IF hit = {} THEN h1
              ELSE [removePopup(h1, key, FALSE) EXCEPT
                      !.evicted = @ \cup {[older |-> key, newer |-> id,
                                           zIndex |-> created.zIndex]}]
        h3 == [h2 EXCEPT !.recs = Append(@, newPopup),
                         !.popups = MapSet(@, id)]
        cb == [kind |-> "added", fns |-> <<id>>, removed |-> <<>>]
    IN [setState(h3, _sortPopups(h3, h3.popups, engine), cb)
          EXCEPT !.ret = IdValue(id)]

\* key.charAt(0) of the keys the model uses
charAt0(key) ==
  IF key = "" THEN ""
  ELSE IF key \in {"_closing", "_orderId", "_maskDelay", "_maskAnimatable",
                   "_maskAnimation"} THEN "_"
  ELSE "k"

\* resetPopupProperty had it not rejected the keys that start with '_'
resetPrivateProperty(h, id, key, value) ==
  IF id = NoId \/ key = "" \/ key = "id" THEN h
  ELSE IF MapHas(h.popups, id) /\ key \in DOMAIN h.recs[id]
       THEN setState([h EXCEPT !.recs[id][key] = value], SameMap, NoCallback)
       ELSE h

resetPopupProperty(h, id, key, value) ==
  IF id = NoId \/ key = "" \/ key = "id" \/ charAt0(key) = "_" THEN h
  ELSE IF MapHas(h.popups, id) /\ key \in DOMAIN h.recs[id]
       THEN setState([h EXCEPT !.recs[id][key] = value], SameMap, NoCallback)
       ELSE h

\* the filter functions the application passes to removeAll and isShow
Filters == {"zIndexIs1"}
applyFilter(filter, o) ==
  IF filter = "zIndexIs1" THEN o.zIndex = 1
  ELSE IF filter = "isClosing" THEN o._closing
  ELSE TRUE    \* trueValue

removeAll(h, filter) ==
  IF h.popups = <<>> THEN h
  ELSE
    LET shouldRemove(id) == IF isFunction(filter)
                            THEN applyFilter(filter, h.recs[id]) ELSE TRUE
        kept == SelectSeq(h.popups, LAMBDA id : ~shouldRemove(id))
        gone == SelectSeq(h.popups, shouldRemove)
        funclist == SelectSeq(gone, LAMBDA id : isFunction(h.recs[id].onClosed))
    IN setState(h, NewMap(kept),
                [kind |-> "closed", fns |-> funclist, removed |-> gone])

isShow(h, filter) ==
  h.stub /\ \E i \in DOMAIN h.popups :
               h.recs[h.popups[i]].visible /\ applyFilter(filter, h.recs[h.popups[i]])

\* the comparator of _onBackAndroid
backCompare(a, b) ==
  IF b._closing \/ ~b.visible THEN 1
  ELSE IF a._closing \/ ~a.visible THEN -1
  ELSE a._orderId - b._orderId

\* the record _onBackAndroid picks: the last of the sorted values
backCandidate(h, engine) ==
  LET sorted == ArraySort(h.popups,
                  [a \in Range(h.popups), b \in Range(h.popups) |->
                     backCompare(h.recs[a], h.recs[b])], engine)
  IN sorted[Len(sorted)]

\* _onBackAndroid had it not looked whether the record it picked is closing
\* or hidden
backOnAnyRecord(h, engine) ==
  IF h.popups = <<>> THEN [h EXCEPT !.ret = Bool(FALSE)]
  ELSE LET popup == h.recs[backCandidate(h, engine)]
       IN IF popup.autoClose /\ popup.visible
          THEN [removePopup(h, popup.id, TRUE) EXCEPT !.ret = Bool(TRUE)]
          ELSE [h EXCEPT !.ret = Bool(popup.onPressBack = "returnsTrue")]

_onBackAndroid(h, engine) ==
  IF h.popups = <<>> THEN [h EXCEPT !.ret = Bool(FALSE)]
  ELSE LET popup == h.recs[backCandidate(h, engine)]
       IN IF popup._closing \/ ~popup.visible THEN [h EXCEPT !.ret = Bool(FALSE)]
          ELSE IF popup.autoClose /\ popup.visible
               THEN [removePopup(h, popup.id, TRUE) EXCEPT !.ret = Bool(TRUE)]
               ELSE [h EXCEPT !.ret = Bool(popup.onPressBack = "returnsTrue")]

\* --------------------------------------------------------- static facade
PopupStub_addPopup(h, element, option, engine) ==
  IF element /\ h.stub THEN addPopup(h, element, option, engine) ELSE h

PopupStub_removePopup(h, id, forceUpdate) ==
  IF id # NoId /\ h.stub THEN removePopup(h, id, forceUpdate) ELSE h

PopupStub_removePopupImmediately(h, id) ==
  IF id # NoId /\ h.stub THEN removePopupImmediately(h, id)
  ELSE [h EXCEPT !.ret = Bool(FALSE)]

PopupStub_resetPopupProperty(h, id, key, value) ==
  IF id # NoId /\ h.stub THEN resetPopupProperty(h, id, key, value) ELSE h

\* PopupStub.stub.removeAll(filter): no presence check, null.removeAll throws
PopupStub_removeAll(h, filter) ==
  IF h.stub THEN removeAll(h, filter) ELSE [h EXCEPT !.ret = TypeError]

PopupStub_isShow(h, filter) ==
  [h EXCEPT !.ret = Bool(isShow(h, filter))]

\* render: the popups on screen are the visible ones of the registry
rendered(h) == {id \in Range(h.popups) : h.recs[id].visible}

\* onAutoClose: the mask of a popup on screen was hit
onAutoClose(h, popup) ==
  IF popup.autoClose /\ ~popup._closing
  THEN PopupStub_removePopup(h, popup.id, TRUE)
  ELSE h

\* ------------------------------------------------------------------ steps
Init ==
  /\ stub = FALSE
  /\ _orderId = 0
  /\ popups = <<>>
  /\ recs = <<>>
  /\ pending = <<>>
  /\ timers = [id \in Ids |-> <<>>]
  /\ closedCount = [id \in Ids |-> 0]
  /\ addedCount = [id \in Ids |-> 0]
  /\ evicted = {}

\* a handler ran and left the heap h
Ran(h) ==
  /\ Len(h.pending) <= MaxPending
  /\ stub' = h.stub
  /\ _orderId' = h._orderId
  /\ popups' = h.popups
  /\ recs' = h.recs
  /\ pending' = h.pending
  /\ timers' = h.timers
  /\ evicted' = h.evicted
  /\ UNCHANGED <<closedCount, addedCount>>

\* PopupStub.init(_ref): _ref is the mounted instance or a falsy value
StaticInit ==
  \E _ref \in BOOLEAN :
    Ran([Heap EXCEPT !.stub = IF _ref THEN TRUE ELSE @])

\* PopupStub.stub = _ref, the static setter: the mounted instance, or null,
\* which unsets the stub and leaves the instance and its registry as they are
SetStub ==
  \E _ref \in BOOLEAN :
    Ran([Heap EXCEPT !.stub = _ref])

AddPopupUpTo(max) ==
  \E element \in BOOLEAN, option \in Options, engine \in Engines :
    /\ Len(recs) < max
    /\ Ran(PopupStub_addPopup(Heap, element, option, engine))

AddPopup == AddPopupUpTo(MaxPopups)

RemovePopup ==
  \E id \in AppIds \cup {NoId}, forceUpdate \in BOOLEAN :
    Ran(PopupStub_removePopup(Heap, id, forceUpdate))

RemovePopupImmediately ==
  \E id \in AppIds \cup {NoId} :
    Ran(PopupStub_removePopupImmediately(Heap, id))

\* the keys and values the application resets
ResetKeys == {"id", "", "_closing", "caption", "zIndex", "visible"}
ResetValues(key) ==
  IF key = "zIndex" THEN ZIndexes
  ELSE IF key = "visible" THEN BOOLEAN
  ELSE {TRUE}

ResetPopupProperty ==
  \E id \in AppIds \cup {NoId}, key \in ResetKeys :
    \E value \in ResetValues(key) :
      Ran(PopupStub_resetPopupProperty(Heap, id, key, value))

RemoveAll ==
  \E filter \in Filters \cup {"undefined"} :
    Ran(PopupStub_removeAll(Heap, filter))

IsShow ==
  \E filter \in {"zIndexIs1", "isClosing", "trueValue"} :
    Ran(PopupStub_isShow(Heap, filter))

\* hardwareBackPress
OnBackAndroid ==
  \E engine \in Engines :
    /\ pending = <<>>
    /\ Ran(_onBackAndroid(Heap, engine))

\* a tap on the mask of a popup on screen
MaskTap ==
  \E id \in rendered(Heap) :
    /\ pending = <<>>
    /\ Ran(onAutoClose(Heap, recs[id]))

\* a fallback timer of _beforeClosing fires
TimerFiresFor(id) ==
  /\ pending = <<>>
  /\ timers[id] # <<>>
  /\ Ran(removePopupImmediately([Heap EXCEPT !.timers[id] = Tail(@)], id))

TimerFires == \E id \in Ids : TimerFiresFor(id)

\* the closing animation of a popup on screen ends: its onAnimationEnd is
\* the one _beforeClosing has set
AnimationEndOf(id) ==
  /\ id \in rendered(Heap)
  /\ pending = <<>>
  /\ recs[id].onAnimationEnd = "removePopupImmediately"
  /\ Ran(removePopupImmediately(Heap, id))

AnimationEnd == \E id \in Ids : AnimationEndOf(id)

\* the callbacks had onAdded been called for registered records only
RECURSIVE callbacksOfRegistered(_, _, _)
callbacksOfRegistered(queue, committed, rs) ==
  IF queue = <<>> THEN <<>>
  ELSE LET cb == Head(queue).cb
           clear == \A r \in Range(cb.removed) : ~MapHas(committed, r)
           run == IF cb.kind = "added"
                  THEN SelectSeq(cb.fns, LAMBDA id :
                         isFunction(rs[id].onAdded) /\ MapHas(committed, id))
                  ELSE cb.fns
       IN [i \in DOMAIN run |->
             [fn |-> IF cb.kind = "added" THEN "onAdded" ELSE "onClosed",
              id |-> run[i], clear |-> clear]]
          \o callbacksOfRegistered(Tail(queue), committed, rs)

\* the callbacks of the queued updates, in order: the function called, the
\* record it belongs to, and whether the committed Map holds none of the
\* records the update removed
RECURSIVE callbacksOf(_, _, _)
callbacksOf(queue, committed, rs) ==
  IF queue = <<>> THEN <<>>
  ELSE LET cb == Head(queue).cb
           clear == \A r \in Range(cb.removed) : ~MapHas(committed, r)
           run == IF cb.kind = "added"
                  THEN SelectSeq(cb.fns, LAMBDA id : isFunction(rs[id].onAdded))
                  ELSE cb.fns
       IN [i \in DOMAIN run |->
             [fn |-> IF cb.kind = "added" THEN "onAdded" ELSE "onClosed",
              id |-> run[i], clear |-> clear]]
          \o callbacksOf(Tail(queue), committed, rs)

\* the call counters tell never (0), once (1) and more than once (2) apart
countUp(count, n) == IF count + n > 1 THEN 2 ELSE count + n

timesCalled(cs, fn, id) == Cardinality({i \in DOMAIN cs : cs[i].fn = fn /\ cs[i].id = id})

\* React applies the queued updates of h: this.state.popups becomes the Map
\* of the last update, the component renders, then the callbacks run in
\* order.  closed and added are the call counters so far.
committedMap(h) ==
  IF h.pending = <<>> \/ h.pending[Len(h.pending)].popups.same THEN h.popups
  ELSE h.pending[Len(h.pending)].popups.ids

commit(h, closed, added) ==
  LET cs == callbacksOf(h.pending, committedMap(h), h.recs)
  IN [heap |-> [h EXCEPT !.popups = committedMap(h), !.pending = <<>>],
      closedCount |-> [id \in Ids |->
                         countUp(closed[id], timesCalled(cs, "onClosed", id))],
      addedCount |-> [id \in Ids |->
                        countUp(added[id], timesCalled(cs, "onAdded", id))]]

Commit ==
  /\ pending # <<>>
  /\ LET c == commit(Heap, closedCount, addedCount)
     IN /\ popups' = c.heap.popups
        /\ pending' = c.heap.pending
        /\ closedCount' = c.closedCount
        /\ addedCount' = c.addedCount
  /\ UNCHANGED <<stub, _orderId, recs, timers, evicted>>

Next ==
  \/ StaticInit
  \/ SetStub
  \/ AddPopup
  \/ RemovePopup
  \/ RemovePopupImmediately
  \/ ResetPopupProperty
  \/ RemoveAll
  \/ IsShow
  \/ OnBackAndroid
  \/ MaskTap
  \/ TimerFires
  \/ AnimationEnd
  \/ Commit

Spec == Init /\ [][Next]_vars

\* ------------------------------------------------- popups replacing popups
\* An application that adds up to MaxAdds popups and removes them, the
\* closing animations running to their end.
AddPopupChain == AddPopupUpTo(MaxAdds)

NextAdd ==
  \/ StaticInit
  \/ SetStub
  \/ AddPopupChain
  \/ RemovePopup
  \/ RemovePopupImmediately
  \/ MaskTap
  \/ TimerFires
  \/ AnimationEnd
  \/ Commit

SpecAdd == Init /\ [][NextAdd]_vars

\* ------------------------------------------------------------ remounting
\* The application unmounts the registry component and mounts a new one,
\* which it registers with PopupStub.init: the new instance starts with an
\* empty Map and an empty queue, the statics of the class stay as they are.
\* The timers of the old instance act on the old instance only.
remountedFromZero(h) ==   \* had _orderId been a field of the instance
  [h EXCEPT !.stub = TRUE, !._orderId = 0, !.popups = <<>>, !.pending = <<>>,
            !.timers = [id \in Ids |-> <<>>]]

remounted(h) ==
  [h EXCEPT !.stub = TRUE, !.popups = <<>>, !.pending = <<>>,
            !.timers = [id \in Ids |-> <<>>]]

Remount == Ran(remounted(Heap))

NextOrder ==
  \/ StaticInit
  \/ SetStub
  \/ AddPopupChain
  \/ RemovePopup
  \/ RemovePopupImmediately
  \/ RemoveAll
  \/ TimerFires
  \/ AnimationEnd
  \/ Remount
  \/ Commit

SpecOrder == Init /\ [][NextOrder]_vars

\* ------------------------------------------------------- closing to the end
\* The application adds popups, closes them and resets their properties.
\* The event loop runs every timer that is due, the renderer reports the end
\* of the animation of a popup that stays on screen, and React applies the
\* queued updates.
NextLive ==
  \/ StaticInit
  \/ SetStub
  \/ AddPopup
  \/ RemovePopup
  \/ ResetPopupProperty
  \/ TimerFires
  \/ AnimationEnd
  \/ Commit

SpecLive ==
  /\ Init /\ [][NextLive]_vars
  /\ WF_vars(Commit)
  /\ \A id \in Ids : SF_vars(TimerFiresFor(id)) /\ SF_vars(AnimationEndOf(id))

\* ------------------------------------------------------- closing, repeated
\* The application adds popups and closes them over and over: by removePopup,
\* by the back button, by taps on the mask.
NextClose ==
  \/ StaticInit
  \/ SetStub
  \/ AddPopupChain
  \/ RemovePopup
  \/ OnBackAndroid
  \/ MaskTap
  \/ TimerFires
  \/ AnimationEnd
  \/ Commit

SpecClose == Init /\ [][NextClose]_vars

\* -------------------------------------------- the registries a back press meets
\* The popups of an application that shows up to MaxBack popups, each at a
\* zIndex of its own: the three kinds, and a modal whose onPressBack
\* declines.
Silent == [Modal EXCEPT !.onPressBack = "returnsFalse"]
BackKinds == {Toast, Modal, Silent, Plain}
Statuses == {"open", "closing", "hidden"}

\* the component is mounted and registered, nothing has been added
Mounted ==
  [heap |-> [stub |-> TRUE, _orderId |-> 0, popups |-> <<>>, recs |-> <<>>,
             pending |-> <<>>, timers |-> [id \in Ids |-> <<>>],
             evicted |-> {}, ret |-> Undefined],
   closedCount |-> [id \in Ids |-> 0],
   addedCount |-> [id \in Ids |-> 0]]

\* the application adds popups of the kinds at the zIndexes, in this order,
\* each committed before the next call
RECURSIVE shown(_, _, _)
shown(w, kinds, zIndexes) ==
  IF kinds = <<>> THEN w
  ELSE LET option == Head(kinds) @@ [zIndex |-> Head(zIndexes)] @@ Common
           h == PopupStub_addPopup(w.heap, TRUE, option, "timsort")
       IN shown(commit(h, w.closedCount, w.addedCount),
                Tail(kinds), Tail(zIndexes))

\* then starts closing some of them and hides others, record by record
RECURSIVE settled(_, _, _)
settled(w, statuses, id) ==
  IF id > Len(statuses) THEN w
  ELSE LET h == IF statuses[id] = "closing"
                THEN PopupStub_removePopup(w.heap, id, TRUE)
                ELSE IF statuses[id] = "hidden"
                THEN PopupStub_resetPopupProperty(w.heap, id, "visible", FALSE)
                ELSE w.heap
       IN settled(commit(h, w.closedCount, w.addedCount), statuses, id + 1)

InitBack ==
  \E n \in 0..MaxBack :
    \E kinds \in [1..n -> BackKinds], zIndexes \in Permutations(1..n),
       statuses \in [1..n -> Statuses] :
      LET w == settled(shown(Mounted, kinds, zIndexes), statuses, 1)
      IN /\ stub = w.heap.stub
         /\ _orderId = w.heap._orderId
         /\ popups = w.heap.popups
         /\ recs = w.heap.recs
         /\ pending = w.heap.pending
         /\ timers = w.heap.timers
         /\ evicted = w.heap.evicted
         /\ closedCount = w.closedCount
         /\ addedCount = w.addedCount

NextBack ==
  \/ SetStub
  \/ OnBackAndroid
  \/ TimerFires
  \/ Commit

SpecBack == InitBack /\ [][NextBack]_vars

\* ------------------------------------------------------------ observations
registered(id) == MapHas(popups, id)
created == DOMAIN recs

\* the Map this.state.popups will be once React has applied the queue
committedNext == committedMap(Heap)

\* the callbacks that commit will run, and how often a record's onClosed will
\* have been invoked once it has
callbacksNext == callbacksOf(pending, committedNext, recs)
closedAfterCommit(id) ==
  closedCount[id] + timesCalled(callbacksNext, "onClosed", id)

\* the queued updates of removePopupImmediately (the live Map, an onClosed
\* callback) and of removeAll (a fresh Map, an onClosed callback)
isImmediateRemoval(u) == u.cb.kind = "closed" /\ u.popups.same
isRemoveAll(u) == u.cb.kind = "closed" /\ ~u.popups.same

unchangedBy(h) ==
  /\ h.stub = stub /\ h._orderId = _orderId /\ h.popups = popups
  /\ h.recs = recs /\ h.pending = pending /\ h.timers = timers
  /\ h.evicted = evicted

\* ------------------------------------------------------------------ claims

\* C1: the onClosed of a popup is invoked at most once, whatever removals,
\* back presses, taps, timers, animation ends and pending commits interleave,
\* and exactly once when, with nothing left to commit, the popup is no longer
\* in the registry.
C1_OnClosedOnce ==
  \A id \in created :
    /\ closedCount[id] <= 1
    /\ (pending = <<>> /\ ~registered(id)) => closedCount[id] = 1

\* C2: removePopupImmediately(id) on an id that is not registered returns
\* false, changes nothing and queues no callback; on a registered id it
\* returns true and deletes the record, and the onClosed it queues is, when
\* it runs, the one and only invocation of that record's onClosed, run on a
\* committed registry without the id.
C2_RemoveImmediately ==
  /\ \A id \in Ids \cup {NoId} :
       LET h == PopupStub_removePopupImmediately(Heap, id)
       IN IF stub /\ registered(id)
          THEN /\ h.ret = Bool(TRUE)
               /\ ~MapHas(h.popups, id)
               /\ isImmediateRemoval(h.pending[Len(h.pending)])
               /\ h.pending[Len(h.pending)].cb.fns = <<id>>
          ELSE h.ret = Bool(FALSE) /\ unchangedBy(h)
  /\ \A i \in DOMAIN pending :
       isImmediateRemoval(pending[i]) =>
         \A id \in Range(pending[i].cb.fns) :
           /\ closedAfterCommit(id) = 1
           /\ ~MapHas(committedNext, id)

\* C3: when the commit of a removeAll() without filter is applied, each
\* record it removed has its onClosed invoked exactly once and the committed
\* registry holds none of them, whatever was called in between.
C3_RemoveAllClears ==
  \A i \in DOMAIN pending :
    (isRemoveAll(pending[i]) /\ pending[i].popups.ids = <<>>) =>
      \A id \in Range(pending[i].cb.removed) :
        /\ closedAfterCommit(id) = 1
        /\ ~MapHas(committedNext, id)

\* C4: for each zIndex at most one registered record is not closing.
C4_OneOpenPerZIndex ==
  \A a, b \in Range(popups) :
    (a # b /\ recs[a].zIndex = recs[b].zIndex) =>
      (recs[a]._closing \/ recs[b]._closing)

\* the registered, non-closing records of h at the zIndex
openAt(h, zIndex) ==
  {id \in Range(h.popups) : h.recs[id].zIndex = zIndex /\ ~h.recs[id]._closing}

\* C5, as the spec has it: when addPopup has replaced a record, the older
\* record is closing or removed, and once it is removed the registry holds,
\* of that zIndex, only the newer record.
C5_OnlyTheNewer ==
  \A e \in evicted :
    /\ registered(e.older) => recs[e.older]._closing
    /\ ~registered(e.older) =>
         \A id \in Range(popups) : recs[id].zIndex = e.zIndex => id = e.newer

\* what addPopup leaves when a non-closing record of the option's zIndex is
\* registered: the first such record is closing or removed, the new record is
\* registered and not closing
addPopupReplaces(option, engine) ==
  LET h == PopupStub_addPopup(Heap, TRUE, option, engine)
      new == Len(recs) + 1
  IN \A older \in openAt(Heap, option.zIndex) :
       (\A other \in openAt(Heap, option.zIndex) :
          \E i, j \in DOMAIN popups :
            popups[i] = older /\ popups[j] = other /\ i <= j) =>
         /\ ~MapHas(h.popups, older) \/ h.recs[older]._closing
         /\ MapHas(h.popups, new) /\ ~h.recs[new]._closing
         /\ h.ret = IdValue(new)
         /\ [older |-> older, newer |-> new, zIndex |-> option.zIndex]
              \in h.evicted

\* C5, amended: when addPopup is called while a non-closing record of the
\* same zIndex is registered, then on return the older record is closing or
\* removed and the new record is registered and not closing; from then on the
\* older record is closing for as long as it is registered, and once it has
\* left the registry it is not registered again.  At every moment, before and
\* after the older record's close completes, a registered record that is not
\* closing is the record added last at its zIndex: every other registered
\* record of that zIndex is closing.
C5_OlderGivesWay ==
  /\ [](/\ stub => \A option \in Options, engine \in Engines :
                     addPopupReplaces(option, engine)
        /\ \A e \in evicted :
             /\ registered(e.older) => recs[e.older]._closing
             /\ e.older < e.newer
        /\ \A id \in Range(popups) :
             ~recs[id]._closing =>
               \A other \in created :
                 recs[other].zIndex = recs[id].zIndex =>
                   recs[other]._orderId <= recs[id]._orderId)
  /\ [][\A e \in evicted : ~registered(e.older) => ~MapHas(popups', e.older)]_vars

\* the close of a replaced record has completed, its onClosed has run, the
\* record that replaced it is registered and open, and a record of that
\* zIndex replaced before it is still closing in the registry
C5_Witness ==
  \E e \in evicted :
    /\ ~registered(e.older) /\ closedCount[e.older] = 1
    /\ registered(e.newer) /\ ~recs[e.newer]._closing /\ pending = <<>>
    /\ \E first \in Range(popups) :
         /\ first < e.older /\ recs[first].zIndex = e.zIndex
         /\ recs[first]._closing

\* C6: with nothing left to commit, the registry holds as many records as
\* addPopup created minus those whose removal has completed (their onClosed
\* has run), and no id twice.
C6_RegistrySize ==
  pending = <<>> =>
    /\ Len(popups) = Len(recs) - Cardinality({id \in created : closedCount[id] > 0})
    /\ \A i, j \in DOMAIN popups : popups[i] = popups[j] => i = j

\* C7: while PopupStub.stub is null every facade operation is a no-op: it
\* changes nothing, throws nothing and returns undefined (false for
\* removePopupImmediately and isShow).
C7_NoStubNoOp ==
  ~stub =>
    /\ \A element \in BOOLEAN, option \in Options, engine \in Engines :
         LET h == PopupStub_addPopup(Heap, element, option, engine)
         IN h.ret = Undefined /\ unchangedBy(h)
    /\ \A id \in Ids \cup {NoId} :
         /\ \A forceUpdate \in BOOLEAN :
              LET h == PopupStub_removePopup(Heap, id, forceUpdate)
              IN h.ret = Undefined /\ unchangedBy(h)
         /\ LET h == PopupStub_removePopupImmediately(Heap, id)
            IN h.ret = Bool(FALSE) /\ unchangedBy(h)
         /\ \A key \in ResetKeys : \A value \in ResetValues(key) :
              LET h == PopupStub_resetPopupProperty(Heap, id, key, value)
              IN h.ret = Undefined /\ unchangedBy(h)
    /\ \A filter \in Filters \cup {"undefined"} :
         LET h == PopupStub_removeAll(Heap, filter)
         IN h.ret = Undefined /\ unchangedBy(h)
    /\ \A filter \in Filters \cup {"trueValue"} :
         LET h == PopupStub_isShow(Heap, filter)
         IN h.ret = Bool(FALSE) /\ unchangedBy(h)

\* the records a back press may act on, and the one added last among them
eligible(h) ==
  {id \in Range(h.popups) : h.recs[id].visible /\ ~h.recs[id]._closing}
newest(h) ==
  CHOOSE id \in eligible(h) :
    \A other \in eligible(h) : h.recs[other]._orderId <= h.recs[id]._orderId

\* C8: when the registry holds a visible, non-closing record, a back press
\* acts on the one of them with the largest _orderId, whichever sort the
\* engine runs: if it is autoClose, the handler returns true and the record
\* is closing or removed, as removePopup leaves it, and no other record has
\* changed; otherwise it returns what the record's onPressBack returns and
\* changes nothing.
C8_BackPicksNewest ==
  eligible(Heap) # {} =>
    \A engine \in Engines :
      LET m == newest(Heap)
          h == _onBackAndroid(Heap, engine)
      IN /\ backCandidate(Heap, engine) = m
         /\ IF recs[m].autoClose
            THEN /\ h.ret = Bool(TRUE)
                 /\ ~MapHas(h.popups, m) \/ h.recs[m]._closing
                 /\ h.popups = removePopup(Heap, m, TRUE).popups
                 /\ h.recs = removePopup(Heap, m, TRUE).recs
                 /\ \A other \in created \ {m} : h.recs[other] = recs[other]
            ELSE /\ h.ret = Bool(recs[m].onPressBack = "returnsTrue")
                 /\ unchangedBy(h)

\* C9: when the registry is empty or holds only closing or hidden records, a
\* back press returns false and changes nothing: not the registry, not a
\* field of a record, not a timer, not the queue.
C9_BackBubblesUp ==
  eligible(Heap) = {} =>
    \A engine \in Engines :
      LET h == _onBackAndroid(Heap, engine)
      IN h.ret = Bool(FALSE) /\ unchangedBy(h)

\* a back press has started closing the last eligible record, and the
\* registry holds a closing and a hidden record
C9_Witness ==
  /\ pending = <<[popups |-> SameMap, cb |-> NoCallback]>>
  /\ eligible(Heap) = {}
  /\ \E a, b \in Range(popups) :
       recs[a]._closing /\ recs[a].visible /\ ~recs[b].visible

\* C10: resetPopupProperty(id, key, value) changes nothing and queues no
\* update when key is 'id', starts with '_' or is empty, when the id is not
\* registered or when the record has no property key; otherwise it sets that
\* property of that record, changes nothing else and queues one update.
C10_ResetPopupProperty ==
  stub =>
    \A id \in Ids \cup {NoId}, key \in ResetKeys : \A value \in ResetValues(key) :
      LET h == PopupStub_resetPopupProperty(Heap, id, key, value)
          rejected == \/ key \in {"id", "", "_closing"}
                      \/ ~registered(id)
                      \/ key \notin DOMAIN recs[id]
      IN /\ h.ret = Undefined /\ h.stub = stub /\ h._orderId = _orderId
         /\ h.popups = popups /\ h.timers = timers
         /\ IF rejected
            THEN h.recs = recs /\ h.pending = pending
            ELSE /\ h.recs[id][key] = value
                 /\ \A other \in created : \A k \in DOMAIN recs[other] :
                      (other # id \/ k # key) => h.recs[other][k] = recs[other][k]
                 /\ DOMAIN h.recs = created
                 /\ h.pending = Append(pending, [popups |-> SameMap, cb |-> NoCallback])

\* a reset has taken effect: a record is hidden, which only resetPopupProperty
\* does, and its update is queued
C10_Witness ==
  \E id \in created :
    /\ ~recs[id].visible /\ registered(id)
    /\ pending # <<>> /\ pending[Len(pending)] = [popups |-> SameMap, cb |-> NoCallback]

\* the update removePopupImmediately queues for the record
removalOf(id) ==
  [popups |-> SameMap,
   cb |-> [kind |-> "closed",
           fns |-> IF isFunction(recs[id].onClosed) THEN <<id>> ELSE <<>>,
           removed |-> <<id>>]]

\* C11: removePopup(id, forceUpdate) on a registered, non-closing record
\* that has no animation or is not visible deletes the record within the
\* call, whatever forceUpdate is: no field of a record changes (the record
\* is not marked closing), no timer is scheduled, and the only update queued
\* is the removal's.  A registered record without animation is never closing
\* and has no timer.
C11_RemovesDirectly ==
  /\ stub =>
       \A id \in Range(popups), forceUpdate \in BOOLEAN :
         (~recs[id]._closing /\
            (recs[id].animation = "undefined" \/ ~recs[id].visible)) =>
           LET h == PopupStub_removePopup(Heap, id, forceUpdate)
           IN /\ ~MapHas(h.popups, id)
              /\ h.popups = MapDelete(popups, id)
              /\ h.recs = recs
              /\ h.timers = timers
              /\ h.pending = Append(pending, removalOf(id))
              /\ h.ret = Undefined
  /\ \A id \in Range(popups) :
       recs[id].animation = "undefined" =>
         ~recs[id]._closing /\ timers[id] = <<>>

\* a hidden record that has an animation was removed without having been
\* marked closing and without a timer, and its removal is queued
C11_Witness ==
  \E id \in created :
    /\ ~registered(id) /\ ~recs[id]._closing /\ ~recs[id].visible
    /\ recs[id].animation # "undefined" /\ timers[id] = <<>>
    /\ pending # <<>> /\ pending[Len(pending)] = removalOf(id)

\* C12: the _orderId addPopup assigns is greater than the _orderId of every
\* record created before, whatever was added, removed, removed by removeAll
\* or remounted in between: the records created so far have increasing
\* _orderId, all below the counter, and the record addPopup creates next
\* gets the counter's value.
C12_OrderIdIncreases ==
  /\ \A a, b \in created : a < b => recs[a]._orderId < recs[b]._orderId
  /\ \A a \in created : recs[a]._orderId < _orderId
  /\ stub =>
       \A option \in Options, engine \in Engines :
         LET h == PopupStub_addPopup(Heap, TRUE, option, engine)
             new == Len(recs) + 1
         IN /\ h.recs[new]._orderId = _orderId
            /\ h._orderId = _orderId + 1
            /\ \A a \in created : h.recs[a]._orderId = recs[a]._orderId

\* a record was added to a remounted registry: an earlier record is gone
\* without its onClosed having run, which only a remount does, and a later
\* record is registered, after a removeAll has removed another
C12_Witness ==
  /\ pending = <<>>
  /\ \E a, b, c \in created :
       /\ a < c /\ b < c /\ registered(c)
       /\ ~registered(a) /\ closedCount[a] = 0
       /\ ~registered(b) /\ closedCount[b] = 1

\* C13: a record only moves forward, open -> closing -> removed: a record
\* that is closing stays closing, and a record whose removal has run to its
\* end (its onClosed has been invoked) is in no committed registry.
C13_ForwardOnly ==
  /\ [](pending = <<>> =>
          \A id \in created : closedCount[id] > 0 => ~registered(id))
  /\ [][\A id \in created : recs[id]._closing => recs'[id]._closing]_vars

\* C14: a record that is closing is eventually out of the registry with its
\* onClosed invoked, by its timer or its animation end alone, whatever the
\* application resets on it meanwhile.
C14_ClosingEndsRemoved ==
  \A id \in Ids :
    (id \in created /\ recs[id]._closing)
      ~> (~registered(id) /\ closedCount[id] > 0)

\* C15: the timer or the animation end of a record that is no longer in
\* the registry does nothing: removePopupImmediately returns false, no
\* record is removed or changed and no callback is queued; of the timers,
\* only the one that fired is gone.
C15_LateSignalNoOp ==
  \A id \in created :
    ~registered(id) =>
      /\ LET h == removePopupImmediately(Heap, id)
         IN h.ret = Bool(FALSE) /\ unchangedBy(h)
      /\ timers[id] # <<>> =>
           LET h == removePopupImmediately(
                      [Heap EXCEPT !.timers[id] = Tail(@)], id)
           IN /\ h.ret = Bool(FALSE)
              /\ h.popups = popups /\ h.recs = recs /\ h.pending = pending
              /\ h.stub = stub /\ h._orderId = _orderId
              /\ h.timers = [timers EXCEPT ![id] = Tail(@)]

\* the timer of a record is still due although the record has been removed
\* and its onClosed has run
C15_Witness ==
  \E id \in created :
    /\ ~registered(id) /\ closedCount[id] = 1
    /\ timers[id] # <<>> /\ pending = <<>>

\* C16: removePopup(id, forceUpdate) on an id that is not registered or on
\* a closing record changes nothing (no field, no timer, no update queued)
\* and returns undefined; a tap on the mask of a popup that is not autoClose
\* or is closing changes nothing.  So however often removePopup, the back
\* button and the mask are used, a record has at most one timer, and it is
\* scheduled for a closing record only, and its onClosed is invoked at most
\* once.
C16_RemovePopupIdempotent ==
  /\ \A id \in Ids \cup {NoId}, forceUpdate \in BOOLEAN :
       (~registered(id) \/ recs[id]._closing) =>
         LET h == PopupStub_removePopup(Heap, id, forceUpdate)
         IN h.ret = Undefined /\ unchangedBy(h)
  /\ \A id \in created :
       (~recs[id].autoClose \/ recs[id]._closing) =>
         unchangedBy(onAutoClose(Heap, recs[id]))
  /\ \A id \in created :
       /\ Len(timers[id]) <= 1
       /\ timers[id] # <<>> => recs[id]._closing
       /\ closedCount[id] <= 1

\* an autoClose popup on screen is closing, its timer is due and nothing is
\* left to commit: the next tap, back press or removePopup meets it closing
C16_Witness ==
  \E id \in rendered(Heap) :
    /\ recs[id]._closing /\ recs[id].autoClose
    /\ Len(timers[id]) = 1 /\ pending = <<>>

\* the filter functions removeAll is checked with
AnyFilter == {"zIndexIs1", "isClosing", "trueValue"}

\* C17: removeAll(filter) with a filter function.  Called on a registry that
\* is not empty, its update holds exactly the records the filter returned
\* false for, in their order; no field of a record has changed, so no record
\* was marked closing, and no timer was set; one update is queued, with the
\* onClosed of the removed records in registry order.  When the queued
\* updates are applied, each removed record has its onClosed invoked once
\* and the committed registry holds none of the removed records.
C17_RemoveAllFilter ==
  /\ (stub /\ popups # <<>>) =>
       \A filter \in AnyFilter :
         LET h == PopupStub_removeAll(Heap, filter)
             keep(id) == ~applyFilter(filter, recs[id])
             gone == SelectSeq(popups, LAMBDA id : ~keep(id))
             u == h.pending[Len(h.pending)]
         IN /\ Len(h.pending) = Len(pending) + 1
            /\ u.popups = NewMap(SelectSeq(popups, keep))
            /\ u.cb = [kind |-> "closed",
                       fns |-> SelectSeq(gone,
                                 LAMBDA id : isFunction(recs[id].onClosed)),
                       removed |-> gone]
            /\ h.recs = recs /\ h.timers = timers /\ h.ret = Undefined
  /\ \A i \in DOMAIN pending :
       (isRemoveAll(pending[i]) /\ pending[i].popups.ids # <<>>) =>
         \A id \in Range(pending[i].cb.removed) :
           /\ closedAfterCommit(id) = 1
           /\ ~MapHas(committedNext, id)

\* ------------------------------------------------ replacing hidden popups
\* The application adds popups one after the other and hides some of them.
NextHide ==
  \/ StaticInit
  \/ SetStub
  \/ AddPopupChain
  \/ ResetPopupProperty
  \/ TimerFires
  \/ AnimationEnd
  \/ Commit

SpecHide == Init /\ [][NextHide]_vars

\* the registered records of the zIndex that are not closing
collides(zIndex) ==
  {id \in Range(popups) : recs[id].zIndex = zIndex /\ ~recs[id]._closing}

\* C18, as the spec has it: when addPopup replaces a record, the new record
\* has delay and mask delay of half the older record's duration, and the
\* older record has delay zero; without a collision the new record has the
\* delays of the factory.
C18_EvictedDelayZero ==
  stub =>
    \A option \in Options, engine \in Engines :
      LET h == PopupStub_addPopup(Heap, TRUE, option, engine)
          id == h.ret.id
          factory == createPopup(id, option @@ [_orderId |-> _orderId])
      IN IF collides(option.zIndex) = {}
         THEN /\ h.recs[id].delay = factory.delay
              /\ h.recs[id]._maskDelay = factory._maskDelay
              /\ h.evicted = evicted
         ELSE \E e \in h.evicted \ evicted :
                /\ h.evicted = evicted \cup {e}
                /\ e.newer = id /\ e.older \in collides(option.zIndex)
                /\ h.recs[id].delay = recs[e.older].duration \div 2
                /\ h.recs[id]._maskDelay = recs[e.older].duration \div 2
                /\ h.recs[e.older].delay = 0

\* C18: when addPopup replaces a record, the new record has delay and mask
\* delay of half the older record's duration.  An older record that has an
\* animation and is visible goes through the closing transition: its delay
\* is zero and, when its mask is animatable, its mask delay is duration -
\* maskDuration, otherwise its mask delay is unchanged.  An older record
\* that has no animation or is hidden is removed directly, with its fields
\* unchanged.  Without a collision the new record has the delays of the
\* factory, and no record is changed.
C18_EvictionDelays ==
  stub =>
    \A option \in Options, engine \in Engines :
      LET h == PopupStub_addPopup(Heap, TRUE, option, engine)
          id == h.ret.id
          factory == createPopup(id, option @@ [_orderId |-> _orderId])
      IN IF collides(option.zIndex) = {}
         THEN /\ h.recs[id].delay = factory.delay
              /\ h.recs[id]._maskDelay = factory._maskDelay
              /\ h.evicted = evicted
              /\ \A k \in created : h.recs[k] = recs[k]
         ELSE \E e \in h.evicted \ evicted :
                LET older == recs[e.older]
                    after == h.recs[e.older]
                IN /\ h.evicted = evicted \cup {e}
                   /\ e.newer = id /\ e.older \in collides(option.zIndex)
                   /\ h.recs[id].delay = older.duration \div 2
                   /\ h.recs[id]._maskDelay = older.duration \div 2
                   /\ IF older.animation # "undefined" /\ older.visible
                      THEN /\ after._closing /\ after.delay = 0
                           /\ after._maskDelay =
                                IF older._maskAnimatable
                                THEN older.duration - older.maskDuration
                                ELSE older._maskDelay
                      ELSE after = older /\ ~MapHas(h.popups, e.older)

\* addPopup has replaced a visible record, now closing with delay zero, and
\* a hidden record that came in with a delay, now removed with that delay
C18_Witness ==
  \E e1, e2 \in evicted :
    /\ recs[e1.older]._closing /\ recs[e1.older].delay = 0
    /\ recs[e1.newer].delay = recs[e1.older].duration \div 2
    /\ recs[e1.newer].delay > 0
    /\ ~recs[e2.older].visible /\ ~recs[e2.older]._closing
    /\ recs[e2.older].delay > 0 /\ ~registered(e2.older)
    /\ recs[e2.newer].delay = recs[e2.older].duration \div 2

\* the position of a registered record in the registry
position(m, id) == CHOOSE i \in DOMAIN m : m[i] = id

\* C19: whenever nothing is left to commit, the registry is in ascending
\* order of zIndex, and no step changes the relative order of two registered
\* records of equal zIndex.
C19_SortedByZIndex ==
  /\ [](pending = <<>> =>
          \A i, j \in DOMAIN popups :
            i < j => recs[popups[i]].zIndex <= recs[popups[j]].zIndex)
  /\ [][\A a, b \in Range(popups) \cap Range(popups') :
          (/\ recs[a].zIndex = recs[b].zIndex
           /\ recs'[a].zIndex = recs'[b].zIndex
           /\ position(popups, a) < position(popups, b))
            => position(popups', a) < position(popups', b)]_vars

\* C20: the onAdded of every record addPopup has created is either queued
\* once, with the update of its addPopup, or has been invoked once; it is
\* never both, so it is invoked exactly once, when that update is applied.
\* In the queue it comes before every onClosed of the record, and a record
\* whose onClosed has been invoked has had its onAdded invoked; this is so
\* whether or not the record is still registered when the update is
\* applied.
C20_OnAddedOnce ==
  \A id \in created :
    /\ addedCount[id] + timesCalled(callbacksNext, "onAdded", id) = 1
    /\ pending = <<>> => addedCount[id] = 1
    /\ closedCount[id] > 0 => addedCount[id] = 1
    /\ \A i, j \in DOMAIN callbacksNext :
         (/\ callbacksNext[i].id = id /\ callbacksNext[i].fn = "onAdded"
          /\ callbacksNext[j].id = id /\ callbacksNext[j].fn = "onClosed")
           => i < j

\* a record has been removed before the update of its addPopup is applied:
\* its onAdded and its onClosed are both queued, and it is not registered
C20_Witness ==
  \E id \in created :
    /\ ~registered(id) /\ ~MapHas(committedNext, id)
    /\ addedCount[id] = 0 /\ closedCount[id] = 0
    /\ timesCalled(callbacksNext, "onAdded", id) = 1
    /\ timesCalled(callbacksNext, "onClosed", id) = 1

====
